---------------------------- MODULE Spec2Model ----------------------------
(* scripts/fix_kit_case.py: the KIT -> kit source rewriter.                 *)
(* Text is a sequence of one-character strings, so the regular expressions  *)
(* and the quote heuristic are computed character by character.             *)
(* Two specifications:                                                      *)
(*   RewriteSpec  process_file on one file's text, run once and then again  *)
(*                on its own output;                                        *)
(*   Spec         one run of main() over a small tree, system call by       *)
(*                system call, with a crash possible at any point.          *)
EXTENDS Naturals, Sequences, FiniteSets

VARIABLES
    text,           \* RewriteSpec: the bytes of the file handed to process_file
    rpc,            \* RewriteSpec: "input" | "first" | "second"
    run1,           \* RewriteSpec: process_file's result on text
    run2,           \* RewriteSpec: process_file's result on run1's new_text
    ROOT,           \* Spec: parts of the resolved root directory
    args,           \* Spec: [check, apply], the parsed command line
    fs0,            \* Spec: the tree as it was before the run
    fs,             \* Spec: the tree: relative path -> content or Absent
    pc,             \* Spec: position in main()
    py_files,       \* Spec: discovered candidates, in discovery order
    changed_files,  \* Spec: sequence of [p, new_text]
    idx             \* Spec: loop index of the loop main() is in

rewriteVars == <<text, rpc, run1, run2>>
mainVars == <<ROOT, args, fs0, fs, pc, py_files, changed_files, idx>>
vars == <<text, rpc, run1, run2, ROOT, args, fs0, fs, pc, py_files, changed_files, idx>>

-----------------------------------------------------------------------------
(* Bounds *)

\* longest input text of RewriteSpec, in fragments
MaxFrags == 5

-----------------------------------------------------------------------------
(* Characters and strings *)

NL == "\n"
CR == "\r"
\* a byte that is not valid UTF-8: open(..., encoding="utf-8") raises on it
BadByte == "0xFF"

RECURSIVE Cat(_)
Cat(ss) == IF ss = <<>> THEN <<>> ELSE Head(ss) \o Cat(Tail(ss))

\* Python's \s on the characters a source line holds
IsSpace(c) == c \in {" ", "\t", NL, CR, "\f"}

\* Python's \w: [A-Za-z0-9_]
IsWord(c) ==
    c \in {"a","b","c","d","e","f","g","h","i","j","k","l","m","n","o","p","q",
           "r","s","t","u","v","w","x","y","z",
           "A","B","C","D","E","F","G","H","I","J","K","L","M","N","O","P","Q",
           "R","S","T","U","V","W","X","Y","Z",
           "0","1","2","3","4","5","6","7","8","9","_"}

\* s[m:n+1] with the slice clipped to the string, as Python slices are
Slice(s, m, n) ==
    IF n > Len(s) THEN SubSeq(s, m, Len(s)) ELSE SubSeq(s, m, n)

HasAt(s, i, w) ==
    /\ i >= 1
    /\ i + Len(w) - 1 <= Len(s)
    /\ SubSeq(s, i, i + Len(w) - 1) = w

\* str.count(c)
Count(s, c) == Cardinality({i \in DOMAIN s : s[i] = c})

\* `w in s`
Contains(s, w) == \E i \in 1..Len(s) : HasAt(s, i, w)

\* first index >= i whose character is not whitespace (Len(s)+1 if none)
RECURSIVE SkipSpaces(_, _)
SkipSpaces(s, i) ==
    IF i <= Len(s) /\ IsSpace(s[i]) THEN SkipSpaces(s, i + 1) ELSE i

\* first index >= i holding a newline (Len(s)+1 if none)
RECURSIVE FindNL(_, _)
FindNL(s, i) ==
    IF i <= Len(s) /\ s[i] # NL THEN FindNL(s, i + 1) ELSE i

-----------------------------------------------------------------------------
(* The regular expressions *)

KIT == <<"K", "I", "T">>
kit == <<"k", "i", "t">>
KIT_DOT == <<"K", "I", "T", ".">>
kit_dot == <<"k", "i", "t", ".">>
FROM == <<"f", "r", "o", "m">>
IMPORT == <<"i", "m", "p", "o", "r", "t">>

\* ^(?P<prefix>\s*KW\s+)KIT(?P<rest>\b.*)$ under re.match: \s* and \s+ are
\* followed by a non-space, so each takes the whole run of whitespace; \b
\* after the T needs a non-word character or the end; .* stops at a newline
\* and $ matches at the end or before a newline that ends the string.
ImportMatch(kw, line) ==
    LET a == SkipSpaces(line, 1)
        b == a + Len(kw)
        c == SkipSpaces(line, b)
        d == c + Len(KIT)
        e == FindNL(line, d)
    IN  [ok |-> /\ HasAt(line, a, kw)
                /\ c > b
                /\ HasAt(line, c, KIT)
                /\ (d > Len(line) \/ ~IsWord(line[d]))
                /\ e >= Len(line),
         prefix |-> Slice(line, 1, c - 1),
         rest |-> Slice(line, d, e - 1),
         at |-> c]

IMPORT_FROM_RE(line) == ImportMatch(FROM, line)
IMPORT_RE(line) == ImportMatch(IMPORT, line)

\* \bKIT\. at position i: K is a word character, so \b asks for the start of
\* the line or a non-word character before it.
KitDotAt(line, i) ==
    /\ HasAt(line, i, KIT_DOT)
    /\ (i = 1 \/ ~IsWord(line[i - 1]))

\* KIT_DOT_RE.sub("kit.", line): every non-overlapping match, left to right
RECURSIVE SubFrom(_, _)
SubFrom(line, i) ==
    IF i > Len(line) THEN <<>>
    ELSE IF KitDotAt(line, i) THEN kit_dot \o SubFrom(line, i + Len(KIT_DOT))
    ELSE <<line[i]>> \o SubFrom(line, i + 1)

KIT_DOT_RE_sub(line) == SubFrom(line, 1)

-----------------------------------------------------------------------------
(* process_file *)

line_has_unbalanced_quotes(line) ==
    (Count(line, "'") % 2 = 1) \/ (Count(line, "\"") % 2 = 1)

\* f"{m.group('prefix')}kit{m.group('rest')}\n"
import_replacement_no_newline(m) == m.prefix \o kit \o m.rest

import_replacement(m) == m.prefix \o kit \o m.rest \o <<NL>>

\* the body of the `for line in lines` loop, without the changed flag
rewrite_line(line) ==
    IF IMPORT_FROM_RE(line).ok THEN import_replacement(IMPORT_FROM_RE(line))
    ELSE IF IMPORT_RE(line).ok THEN import_replacement(IMPORT_RE(line))
    ELSE IF Contains(line, KIT_DOT) /\ ~line_has_unbalanced_quotes(line)
         THEN KIT_DOT_RE_sub(line)
    ELSE line

\* open(path, "r", encoding="utf-8") decodes strictly
Decodable(bytes) == \A i \in DOMAIN bytes : bytes[i] # BadByte

\* open(path, "r") has newline=None: "\r\n" and a lone "\r" are read as "\n"
RECURSIVE UniversalNewlines(_)
UniversalNewlines(s) ==
    IF s = <<>> THEN <<>>
    ELSE IF Head(s) = CR
         THEN IF Len(s) >= 2 /\ s[2] = NL
              THEN <<NL>> \o UniversalNewlines(SubSeq(s, 3, Len(s)))
              ELSE <<NL>> \o UniversalNewlines(Tail(s))
    ELSE <<Head(s)>> \o UniversalNewlines(Tail(s))

\* f.readlines() on decoded text: split after every "\n", terminators kept
RECURSIVE SplitLines(_)
SplitLines(s) ==
    IF s = <<>> THEN <<>>
    ELSE LET n == FindNL(s, 1)
         IN  IF n >= Len(s) THEN <<s>>
             ELSE <<SubSeq(s, 1, n)>> \o SplitLines(SubSeq(s, n + 1, Len(s)))

readlines(bytes) == SplitLines(UniversalNewlines(bytes))

process_file(bytes) ==
    IF ~Decodable(bytes)
    THEN [raised |-> TRUE, changed |-> FALSE, new_text |-> <<>>]
    ELSE LET lines == readlines(bytes)
             new_lines == [i \in DOMAIN lines |-> rewrite_line(lines[i])]
             changed == \E i \in DOMAIN lines : new_lines[i] # lines[i]
         IN  [raised |-> FALSE,
              changed |-> changed,
              new_text |-> IF changed THEN Cat(new_lines) ELSE <<>>]

-----------------------------------------------------------------------------
(* RewriteSpec: process_file on generated texts *)

Fragments ==
    {FROM, IMPORT, <<" ">>, KIT, KIT_DOT, <<"x">>, <<"'">>, <<NL>>}

\* the example lines of the documentation; the import example is the last
\* line of a file that does not end in a newline
Examples ==
    {<<"m", "s", "g", " ", "=", " ", "'", "C", "o", "n", "t", "a", "i", "n",
       "s", " ", "K", "I", "T", ".", " ", "l", "i", "t", "e", "r", "a", "l",
       "'", "\n">>,
     <<"f", "r", "o", "m", " ", "K", "I", "T", ".", "d", "a", "t", "a", "b",
       "a", "s", "e", " ", "i", "m", "p", "o", "r", "t", " ", "m", "o", "d",
       "e", "l", "s", "\n">>,
     <<"i", "m", "p", "o", "r", "t", " ", "K", "I", "T", ".", "u", "t", "i",
       "l", "s">>,
     <<"r", "e", "s", "u", "l", "t", " ", "=", " ", "K", "I", "T", ".", "s",
       "e", "a", "r", "c", "h", "(", "q", "u", "e", "r", "y", ")", "\n">>,
     <<"x", " ", "=", " ", "K", "I", "T", "C", "H", "E", "N", ".", "v", "a",
       "l", "u", "e", "\n">>,
     \* a file of three lines: an import, a dotted reference, a plain line
     Cat(<<IMPORT, <<" ">>, KIT_DOT, <<"x", NL>>,
           <<"y", " ", "=", " ">>, KIT_DOT, <<"z", NL>>,
           <<"x", NL>>>>),
     \* files with CRLF and with CR line ends
     Cat(<<<<"x", CR, NL>>, IMPORT, <<" ">>, KIT_DOT, <<"x", CR, NL>>>>),
     Cat(<<<<"x", CR>>, KIT_DOT, <<"x", CR>>, FROM, <<" ">>, KIT>>)}

Texts ==
    {Cat(f) : f \in UNION {[1..n -> Fragments] : n \in 0..MaxFrags}} \cup Examples

NoRun == [raised |-> FALSE, changed |-> FALSE, new_text |-> <<>>]

MainIdle ==
    /\ ROOT = <<>>
    /\ args = [check |-> FALSE, apply |-> FALSE]
    /\ fs0 = <<>>
    /\ fs = <<>>
    /\ pc = "idle"
    /\ py_files = <<>>
    /\ changed_files = <<>>
    /\ idx = 0

RewriteInit ==
    /\ text \in Texts
    /\ rpc = "input"
    /\ run1 = NoRun
    /\ run2 = NoRun
    /\ MainIdle

\* process_file on the file as found
FirstRun ==
    /\ rpc = "input"
    /\ run1' = process_file(text)
    /\ rpc' = "first"
    /\ UNCHANGED <<text, run2>>
    /\ UNCHANGED mainVars

\* process_file on the file after new_text was written to it
SecondRun ==
    /\ rpc = "first"
    /\ run1.changed
    /\ run2' = process_file(run1.new_text)
    /\ rpc' = "second"
    /\ UNCHANGED <<text, run1>>
    /\ UNCHANGED mainVars

RewriteNext == FirstRun \/ SecondRun

RewriteSpec == RewriteInit /\ [][RewriteNext]_vars

-----------------------------------------------------------------------------
(* Paths and the tree *)

\* A name is its stem followed by its dot-suffixes; a path is the sequence
\* of its names (Path.parts).
PY_EXT == ".py"
BAK_EXT == ".bak"

\* Path.suffix: the last dot-suffix of the final name, "" if it has none
Suffix(path) ==
    LET name == path[Len(path)]
    IN  IF Len(name) >= 2 THEN name[Len(name)] ELSE ""

\* Path.with_suffix(suffixes): the final name's last suffix replaced
with_suffix(path, suffixes) ==
    LET name == path[Len(path)]
        stem == IF Len(name) >= 2 THEN SubSeq(name, 1, Len(name) - 1) ELSE name
    IN  [path EXCEPT ![Len(path)] = stem \o suffixes]

\* p.with_suffix(p.suffix + ".bak")
BakOf(p) == with_suffix(p, <<Suffix(p), BAK_EXT>>)

SRC == <<"src">>
TESTS == <<"tests">>
DOCS == <<"docs">>

A_PY == <<SRC, <<"a", ".py">>>>
B_PY == <<TESTS, <<"b", ".py">>>>
C_PY == <<DOCS, <<"c", ".py">>>>
D_TXT == <<SRC, <<"d", ".txt">>>>

PyPaths == {A_PY, B_PY, C_PY}
AllPaths == PyPaths \cup {D_TXT} \cup {BakOf(p) : p \in PyPaths}

\* where the checkout lies: Path(__file__).resolve().parents[1]
Roots ==
    {<<<<"/">>, <<"home">>, <<"dev">>, <<"kitkat">>>>,
     <<<<"/">>, <<"home">>, <<"dev">>, <<"src">>, <<"kitkat">>>>}

Absent == [exists |-> FALSE, data |-> <<>>]
File(d) == [exists |-> TRUE, data |-> d]

T_IMPORT == Cat(<<IMPORT, <<" ">>, KIT_DOT, <<"x", NL>>>>)
T_PLAIN == <<"x", NL>>
T_BAD == <<"x", BadByte, NL>>
T_OLD == <<"o", "l", "d", NL>>

FileTexts == {T_IMPORT, T_PLAIN, T_BAD}

\* every path of the tree exists, except that a backup may or may not
Trees ==
    {t \in [AllPaths -> {File(d) : d \in FileTexts \cup {T_OLD}} \cup {Absent}] :
        /\ \A p \in PyPaths : t[p].exists /\ t[p].data \in FileTexts
        /\ \A p \in PyPaths : t[BakOf(p)] \in {Absent, File(T_OLD)}
        /\ t[D_TXT] = File(T_IMPORT)}

\* all orders in which a directory walk may list S
Perms(S) ==
    {s \in [1..Cardinality(S) -> S] : \A a \in S : \E i \in DOMAIN s : s[i] = a}

-----------------------------------------------------------------------------
(* main *)

file_should_be_processed(path) ==
    /\ \/ \E i \in DOMAIN path : path[i] = SRC
       \/ \E i \in DOMAIN path : path[i] = TESTS
    /\ Suffix(path) = PY_EXT

\* ROOT.rglob("*.py"): the existing entries under ROOT whose name ends in .py
rglob_py(tree) == {p \in AllPaths : tree[p].exists /\ Suffix(p) = PY_EXT}

\* [p for p in ROOT.rglob("*.py") if file_should_be_processed(p)]; rglob
\* yields ROOT / relative path
Selected(tree, root) ==
    {p \in rglob_py(tree) : file_should_be_processed(root \o p)}

\* `if args.apply:`
should_write_unless_check == ~args.check

should_write == args.apply

RewriteIdle ==
    /\ text = <<>>
    /\ rpc = "idle"
    /\ run1 = NoRun
    /\ run2 = NoRun

Init ==
    /\ ROOT \in Roots
    /\ args \in [check : BOOLEAN, apply : BOOLEAN]
    /\ fs0 \in Trees
    /\ fs = fs0
    /\ pc = "start"
    /\ py_files = <<>>
    /\ changed_files = <<>>
    /\ idx = 0
    /\ RewriteIdle

\* lines 74-79
Discover ==
    /\ pc = "start"
    /\ py_files' \in Perms(Selected(fs, ROOT))
    /\ IF py_files' = <<>>
       THEN pc' = "done" /\ idx' = idx
       ELSE pc' = "scan" /\ idx' = 1
    /\ UNCHANGED <<ROOT, args, fs0, fs, changed_files>>
    /\ UNCHANGED rewriteVars

\* a single pass that writes each changed file as soon as it is classified
ScanFileWriting ==
    /\ pc = "scan"
    /\ idx <= Len(py_files)
    /\ LET p == py_files[idx]
           r == process_file(fs[p].data)
       IN  IF r.raised
           THEN /\ pc' = "error"
                /\ UNCHANGED <<changed_files, idx, fs>>
           ELSE /\ changed_files' =
                      IF r.changed
                      THEN Append(changed_files, [p |-> p, new_text |-> r.new_text])
                      ELSE changed_files
                /\ fs' = IF r.changed /\ args.apply
                         THEN [fs EXCEPT ![p] = File(r.new_text)]
                         ELSE fs
                /\ idx' = idx + 1
                /\ pc' = pc
    /\ UNCHANGED <<ROOT, args, fs0, py_files>>
    /\ UNCHANGED rewriteVars

\* one iteration of `for p in py_files` (lines 80-83); a decode error leaves
\* main by the exception
ScanFile ==
    /\ pc = "scan"
    /\ idx <= Len(py_files)
    /\ LET p == py_files[idx]
           r == process_file(fs[p].data)
       IN  IF r.raised
           THEN /\ pc' = "error"
                /\ UNCHANGED <<changed_files, idx>>
           ELSE /\ changed_files' =
                      IF r.changed
                      THEN Append(changed_files, [p |-> p, new_text |-> r.new_text])
                      ELSE changed_files
                /\ idx' = idx + 1
                /\ pc' = pc
    /\ UNCHANGED <<ROOT, args, fs0, fs, py_files>>
    /\ UNCHANGED rewriteVars

\* lines 85-87
EndScan ==
    /\ pc = "scan"
    /\ idx > Len(py_files)
    /\ IF changed_files = <<>>
       THEN pc' = "done" /\ idx' = idx
       ELSE pc' = "apply" /\ idx' = 1
    /\ UNCHANGED <<ROOT, args, fs0, fs, py_files, changed_files>>
    /\ UNCHANGED rewriteVars

Cur == changed_files[idx]

\* lines 89-94: the head of one iteration of the apply loop
ApplyNext ==
    /\ pc = "apply"
    /\ idx <= Len(changed_files)
    /\ IF ~should_write
       THEN pc' = "apply" /\ idx' = idx + 1
       ELSE /\ pc' = IF ~fs[BakOf(Cur.p)].exists THEN "rename" ELSE "open_direct"
            /\ idx' = idx
    /\ UNCHANGED <<ROOT, args, fs0, fs, py_files, changed_files>>
    /\ UNCHANGED rewriteVars

\* line 95: p.rename(bak)
RenameToBak ==
    /\ pc = "rename"
    /\ fs' = [fs EXCEPT ![BakOf(Cur.p)] = fs[Cur.p], ![Cur.p] = Absent]
    /\ pc' = "open"
    /\ UNCHANGED <<ROOT, args, fs0, py_files, changed_files, idx>>
    /\ UNCHANGED rewriteVars

\* line 96, bak.write_text: open(bak, "w") truncates the file
OpenBak ==
    /\ pc = "open"
    /\ fs' = [fs EXCEPT ![BakOf(Cur.p)] = File(<<>>)]
    /\ pc' = "write"
    /\ UNCHANGED <<ROOT, args, fs0, py_files, changed_files, idx>>
    /\ UNCHANGED rewriteVars

\* line 96, bak.write_text: the text is written and the file closed
WriteBak ==
    /\ pc = "write"
    /\ fs' = [fs EXCEPT ![BakOf(Cur.p)] = File(Cur.new_text)]
    /\ pc' = "rename_back"
    /\ UNCHANGED <<ROOT, args, fs0, py_files, changed_files, idx>>
    /\ UNCHANGED rewriteVars

RenameBackSkipped ==
    /\ pc = "rename_back"
    /\ pc' = "apply"
    /\ idx' = idx + 1
    /\ UNCHANGED <<ROOT, args, fs0, fs, py_files, changed_files>>
    /\ UNCHANGED rewriteVars

\* line 98: bak.rename(p)
RenameBack ==
    /\ pc = "rename_back"
    /\ fs' = [fs EXCEPT ![Cur.p] = fs[BakOf(Cur.p)], ![BakOf(Cur.p)] = Absent]
    /\ pc' = "apply"
    /\ idx' = idx + 1
    /\ UNCHANGED <<ROOT, args, fs0, py_files, changed_files>>
    /\ UNCHANGED rewriteVars

\* line 101, p.write_text: open(p, "w") truncates the file
OpenDirect ==
    /\ pc = "open_direct"
    /\ fs' = [fs EXCEPT ![Cur.p] = File(<<>>)]
    /\ pc' = "write_direct"
    /\ UNCHANGED <<ROOT, args, fs0, py_files, changed_files, idx>>
    /\ UNCHANGED rewriteVars

\* line 101, p.write_text: the text is written and the file closed
WriteDirect ==
    /\ pc = "write_direct"
    /\ fs' = [fs EXCEPT ![Cur.p] = File(Cur.new_text)]
    /\ pc' = "apply"
    /\ idx' = idx + 1
    /\ UNCHANGED <<ROOT, args, fs0, py_files, changed_files>>
    /\ UNCHANGED rewriteVars

\* line 104
Finish ==
    /\ pc = "apply"
    /\ idx > Len(changed_files)
    /\ pc' = "done"
    /\ UNCHANGED <<ROOT, args, fs0, fs, py_files, changed_files, idx>>
    /\ UNCHANGED rewriteVars

Running ==
    pc \in {"start", "scan", "apply", "rename", "open", "write", "rename_back",
            "open_direct", "write_direct"}

\* The process dies (power loss, kill). While write_text is writing, the file
\* it opened holds whatever prefix of the text had reached it.
Crash ==
    /\ Running
    /\ pc' = "crashed"
    /\ IF pc \in {"write", "write_direct"}
       THEN LET target == IF pc = "write" THEN BakOf(Cur.p) ELSE Cur.p
            IN  \E n \in 0..(Len(Cur.new_text) - 1) :
                    fs' = [fs EXCEPT ![target] = File(SubSeq(Cur.new_text, 1, n))]
       ELSE fs' = fs
    /\ UNCHANGED <<ROOT, args, fs0, py_files, changed_files, idx>>
    /\ UNCHANGED rewriteVars

Next ==
    \/ Discover
    \/ ScanFile
    \/ EndScan
    \/ ApplyNext
    \/ RenameToBak
    \/ OpenBak
    \/ WriteBak
    \/ RenameBack
    \/ OpenDirect
    \/ WriteDirect
    \/ Finish
    \/ Crash

Spec == Init /\ [][Next]_vars

-----------------------------------------------------------------------------
(* Properties of main, checked under Spec *)

\* the changed files of the run: the candidates process_file reports changed
ChangedSet ==
    {p \in Selected(fs0, ROOT) : process_file(fs0[p].data).changed}

NewTextOf(p) == process_file(fs0[p].data).new_text

\* the complete original text or the complete new text of p is at p or at
\* its backup path
CompleteCopy(p) ==
    \E q \in {p, BakOf(p)} :
        /\ fs[q].exists
        /\ fs[q].data \in {fs0[p].data, NewTextOf(p)}

\* C1: after a crash at any point of the apply sequence, every changed file
\* still has its complete original text or its complete new text at the
\* original path or at the backup path.
CrashSafe ==
    pc = "crashed" => \A k \in DOMAIN changed_files : CompleteCopy(changed_files[k].p)

\* C2: in a run without --apply the tree is at every moment what it was
\* before the run: no path is renamed, written or deleted.
DryRunNoSideEffects == ~args.apply => fs = fs0

\* C2 witness: a finished run without --apply that reported files to change
DryRunReported ==
    /\ pc = "done"
    /\ ~args.apply
    /\ changed_files # <<>>

\* C7: whenever --check is supplied no file is modified, whatever else is
\* supplied.
CheckNeverWrites == args.check => fs = fs0

\* p lies in a src or tests directory of the tree being walked
InAllowListedSubtree(p) == \E i \in DOMAIN p : p[i] \in {SRC, TESTS}

\* C8: once discovery is done, a file of the tree is a candidate if and only
\* if its extension is .py and it lies in a src or tests directory of the
\* tree, wherever the root lies.
SelectionScoped ==
    pc \in {"scan", "apply", "done", "error"} =>
        \A p \in AllPaths :
            fs0[p].exists =>
                ((\E i \in DOMAIN py_files : py_files[i] = p)
                    <=> (Suffix(p) = PY_EXT /\ InAllowListedSubtree(p)))

\* C9: after an apply run that completed, every changed file holds the text
\* process_file returned for it and every other path, the backup paths
\* included, is as it was before the run.
ApplyPostState ==
    (pc = "done" /\ args.apply) =>
        \A p \in AllPaths :
            IF p \in ChangedSet
            THEN fs[p] = File(NewTextOf(p))
            ELSE fs[p] = fs0[p]

\* C9 witness: a completed apply run that took both branches, one changed
\* file without a backup and one with
ApplyBothBranchesDone ==
    /\ pc = "done"
    /\ args.apply
    /\ \E p \in ChangedSet : ~fs0[BakOf(p)].exists
    /\ \E p \in ChangedSet : fs0[BakOf(p)].exists

\* C10: when process_file raises on a candidate, the run has renamed and
\* modified nothing.
NoWriteOnDecodeFailure == pc = "error" => fs = fs0

\* C10 witness: an apply run stopped by a file that fails to decode after a
\* changed file was already classified
DecodeFailureAfterChange ==
    /\ pc = "error"
    /\ args.apply
    /\ changed_files # <<>>

-----------------------------------------------------------------------------
(* Properties of process_file, checked under RewriteSpec *)

InLines == readlines(text)
OutLines == readlines(run1.new_text)

\* C3: process_file on a rewritten file reports no change.
SecondRunUnchanged == rpc = "second" => ~run2.changed

\* the quote that is open after the first n characters of line ("" if none):
\* a quote character opens a literal, the same character closes it
RECURSIVE OpenQuote(_, _)
OpenQuote(line, n) ==
    IF n = 0 THEN ""
    ELSE LET q == OpenQuote(line, n - 1)
             c == line[n]
         IN  IF q = "" THEN (IF c \in {"'", "\""} THEN c ELSE "")
             ELSE IF c = q THEN "" ELSE q

InsideLiteral(line, i) == OpenQuote(line, i - 1) # ""

IsImportLine(line) == IMPORT_FROM_RE(line).ok \/ IMPORT_RE(line).ok

\* C4: on a line that is no import line, an occurrence of KIT. inside a
\* string literal is still KIT. in the rewritten text.
LiteralsUntouched ==
    (rpc # "input" /\ run1.changed) =>
        \A l \in DOMAIN InLines :
            ~IsImportLine(InLines[l]) =>
                \A i \in DOMAIN InLines[l] :
                    (KitDotAt(InLines[l], i) /\ InsideLiteral(InLines[l], i))
                        => (l \in DOMAIN OutLines /\ HasAt(OutLines[l], i, KIT_DOT))

\* the line with the three characters at position c replaced by kit
WithKitAt(line, c) ==
    SubSeq(line, 1, c - 1) \o kit \o SubSeq(line, c + Len(KIT), Len(line))

ImportAt(line) ==
    IF IMPORT_FROM_RE(line).ok THEN IMPORT_FROM_RE(line).at ELSE IMPORT_RE(line).at

\* C5: a line matching an import rule comes out as itself with only KIT
\* replaced by kit: prefix, rest and terminator (or its absence) are kept.
ImportExact ==
    (rpc # "input" /\ run1.changed) =>
        \A l \in DOMAIN InLines :
            IsImportLine(InLines[l]) =>
                /\ l \in DOMAIN OutLines
                /\ OutLines[l] = WithKitAt(InLines[l], ImportAt(InLines[l]))

\* C6: a changed file's new text has as many lines as the file, and line i
\* of it is line i of the file or that line's rewrite.
LineCountPreserved ==
    (rpc # "input" /\ run1.changed) =>
        /\ Len(OutLines) = Len(InLines)
        /\ \A i \in DOMAIN InLines :
               OutLines[i] \in {InLines[i], rewrite_line(InLines[i])}

\* C6 witness: a changed file of at least three lines, one rewritten by an
\* import rule, one by the dotted rule and one kept
MixedLinesRewritten ==
    /\ rpc = "first"
    /\ run1.changed
    /\ Len(InLines) >= 3
    /\ \E i \in DOMAIN InLines : IsImportLine(InLines[i])
    /\ \E i \in DOMAIN InLines :
           ~IsImportLine(InLines[i]) /\ rewrite_line(InLines[i]) # InLines[i]
    /\ \E i \in DOMAIN InLines : rewrite_line(InLines[i]) = InLines[i]

=============================================================================
